---------------------------- MODULE Spec2Model ----------------------------
(***************************************************************************)
(* Model of the N2YO daily report job (src/app.py): configuration          *)
(* resolution from the process environment, the five query operations on   *)
(* top of fetch_api_data, format_data_as_html, send_email and the          *)
(* __main__ entry point.                                                   *)
(*                                                                         *)
(* Text is modelled as a sequence of tokens.  Configuration strings are    *)
(* sequences of one-character tokens, so that int() can be modelled as the  *)
(* parser it is.  A Python value that may be None, a str or an int is the  *)
(* record [t, s, n].  A JSON value / Python dict or list is the record     *)
(* [t, keys, vals] whose vals are texts.                                   *)
(***************************************************************************)
EXTENDS Integers, Sequences, FiniteSets, TLC

VARIABLES
    env,                \* os.environ: name -> text, absent names not in DOMAIN
    jsonErrIsRequestException, \* class of the error response.json() raises
    N2YO_API_KEY, SMTP_SERVER, SMTP_PORT, SMTP_USERNAME, SMTP_PASSWORD,
    SENDER_EMAIL, RECEIVER_EMAIL,          \* module configuration (l.26-32)
    pc,                 \* position of the running code
    all_data,           \* the report dict of __main__, in insertion order
    email_body_html,    \* the rendered report
    calls,              \* history: functions invoked so far, in order
    fetched,            \* history: the return statement each fetch took
    netCalls,           \* history: number of requests.get calls
    smtpCalls,          \* history: number of smtplib.SMTP connections
    exitStatus,         \* process exit status, -1 while running
    result,             \* return value of the last direct call
    args                \* arguments of the last direct call

vars == <<env, jsonErrIsRequestException, N2YO_API_KEY, SMTP_SERVER, SMTP_PORT,
          SMTP_USERNAME, SMTP_PASSWORD, SENDER_EMAIL, RECEIVER_EMAIL, pc,
          all_data, email_body_html, calls, fetched, netCalls, smtpCalls,
          exitStatus, result, args>>

config == <<env, jsonErrIsRequestException, N2YO_API_KEY, SMTP_SERVER,
            SMTP_PORT, SMTP_USERNAME, SMTP_PASSWORD, SENDER_EMAIL,
            RECEIVER_EMAIL>>

\* Longest environment value, in characters, of the get_config_value cases.
MaxLen == 3

-----------------------------------------------------------------------------
(* Python values *)

None == [t |-> "none", s |-> <<>>, n |-> 0]

PyStr(s) == [t |-> "str", s |-> s, n |-> 0]

PyInt(n) == [t |-> "int", s |-> <<>>, n |-> n]

\* bool(v): None, "" and 0 are falsy
Truthy(v) ==
    CASE v.t = "none" -> FALSE
      [] v.t = "str"  -> v.s # <<>>
      [] OTHER        -> v.n # 0

\* all([...]) over a sequence of values
All(vs) == \A i \in 1..Len(vs) : Truthy(vs[i])

-----------------------------------------------------------------------------
(* int(value) on a str *)

Digits == {"0", "1", "2", "3", "4", "5", "6", "7", "8", "9"}

DigitVal(c) ==
    CASE c = "0" -> 0 [] c = "1" -> 1 [] c = "2" -> 2 [] c = "3" -> 3
      [] c = "4" -> 4 [] c = "5" -> 5 [] c = "6" -> 6 [] c = "7" -> 7
      [] c = "8" -> 8 [] OTHER -> 9

RECURSIVE LStrip(_)
LStrip(s) == IF s # <<>> /\ Head(s) = " " THEN LStrip(Tail(s)) ELSE s

RECURSIVE RStrip(_)
RStrip(s) ==
    IF s # <<>> /\ s[Len(s)] = " " THEN RStrip(SubSeq(s, 1, Len(s) - 1)) ELSE s

Strip(s) == RStrip(LStrip(s))

Unsigned(s) ==
    LET t == Strip(s)
    IN  IF t # <<>> /\ Head(t) \in {"+", "-"} THEN Tail(t) ELSE t

\* the literals int() accepts in base 10: optional blanks, optional sign,
\* digits with single underscores between them
IsIntLiteral(s) ==
    LET u == Unsigned(s)
    IN  /\ u # <<>>
        /\ \A i \in 1..Len(u) : u[i] \in Digits \cup {"_"}
        /\ u[1] \in Digits
        /\ u[Len(u)] \in Digits
        /\ \A i \in 1..(Len(u) - 1) : ~(u[i] = "_" /\ u[i + 1] = "_")

RECURSIVE Magnitude(_, _)
Magnitude(u, acc) ==
    IF u = <<>> THEN acc
    ELSE IF Head(u) = "_" THEN Magnitude(Tail(u), acc)
    ELSE Magnitude(Tail(u), 10 * acc + DigitVal(Head(u)))

IntValue(s) ==
    LET t == Strip(s)
        m == Magnitude(Unsigned(s), 0)
    IN  IF Head(t) = "-" THEN 0 - m ELSE m

-----------------------------------------------------------------------------
(* get_config_value, src/app.py l.10-23 *)

\* key_name.upper() on the names callers use
Upper(name) ==
    CASE name = "smtp_port"    -> "SMTP_PORT"
      [] name = "Smtp_Port"    -> "SMTP_PORT"
      [] name = "sender_email" -> "SENDER_EMAIL"
      [] OTHER                 -> name

\* get_config_value without its except ValueError clause
GetConfigValueNoCatch(Environ, key_name, default, is_int) ==
    IF Upper(key_name) \notin DOMAIN Environ
    THEN [raised |-> FALSE, value |-> default]
    ELSE LET value == Environ[Upper(key_name)]
         IN  IF is_int
             THEN IF IsIntLiteral(value)
                  THEN [raised |-> FALSE, value |-> PyInt(IntValue(value))]
                  ELSE [raised |-> TRUE, value |-> None]
             ELSE [raised |-> FALSE, value |-> PyStr(value)]

\* returns [raised, value]; Environ is the environment it reads
get_config_value(Environ, key_name, default, is_int) ==
    IF Upper(key_name) \notin DOMAIN Environ
    THEN [raised |-> FALSE, value |-> default]
    ELSE LET value == Environ[Upper(key_name)]
         IN  IF is_int
             THEN IF IsIntLiteral(value)
                  THEN [raised |-> FALSE, value |-> PyInt(IntValue(value))]
                  ELSE [raised |-> FALSE, value |-> default]
             ELSE [raised |-> FALSE, value |-> PyStr(value)]

DEFAULT_SMTP_PORT == 587

-----------------------------------------------------------------------------
(* JSON values and Python dicts *)

Dict(keys, vals) == [t |-> "dict", keys |-> keys, vals |-> vals]

List(vals) == [t |-> "list", keys |-> <<>>, vals |-> vals]

Null == [t |-> "null", keys |-> <<>>, vals |-> <<>>]

\* isinstance(data, dict) and key in data
IsDictWith(data, key) ==
    data.t = "dict" /\ \E i \in 1..Len(data.keys) : data.keys[i] = key

\* data[key]
Item(data, key) ==
    data.vals[CHOOSE i \in 1..Len(data.keys) : data.keys[i] = key]

\* bool(data): an empty dict, an empty list and None are falsy
DataTruthy(data) == data.t # "null" /\ Len(data.vals) > 0

-----------------------------------------------------------------------------
(* API call parameters, src/app.py l.35-44.  A numeric parameter is carried *)
(* as the text its f-string interpolation yields.                           *)

BASE_URL == "https://api.n2yo.com/rest/v1/satellite/"
ISS_NORAD_ID == "25544"
OBSERVER_LAT == "40.7128"
OBSERVER_LNG == "-74.006"
OBSERVER_ALT == "10"
PASS_DAYS == "2"
MIN_VISIBILITY_SECONDS == "300"
MIN_ELEVATION_DEGREES == "40"
SEARCH_RADIUS_DEGREES == "70"
CATEGORY_ID == "0"

-----------------------------------------------------------------------------
(* The HTTP transport: what requests.get(full_url, timeout=30) can do *)

BodyInfo == "{\"info\": \"SPACE STATION\"}"
BodyApiError == "{\"error\": \"Invalid API Key!\"}"
BodyEmpty == "{}"
BodyInvalid == "{invalid"

Bodies == {BodyInfo, BodyApiError, BodyEmpty, BodyInvalid}

Statuses == {200, 404}

\* an exception raised by requests.get itself, or a response
TransportOutcomes ==
    {[kind |-> "raise", status |-> 0, text |-> "ConnectTimeout"]}
    \cup {[kind |-> "response", status |-> st, text |-> b] :
            st \in Statuses, b \in Bodies}

\* json.loads on the bodies above: does the text parse
JsonValid(text) == text # BodyInvalid

\* json.loads on the bodies above: the value
JsonLoads(text) ==
    CASE text = BodyInfo     -> Dict(<<"info">>, << <<"SPACE STATION">> >>)
      [] text = BodyApiError -> Dict(<<"error">>, << <<"Invalid API Key!">> >>)
      [] OTHER               -> Dict(<<>>, <<>>)

\* str(e) of the HTTPError raise_for_status raises
HTTPErrorMessage(status, url) ==
    IF status < 500
    THEN <<"404 Client Error: Not Found for url: ">> \o url
    ELSE <<"500 Server Error: Internal Server Error for url: ">> \o url

\* str(e) of the error response.json() raises
JsonErrorMessage == <<"Expecting property name enclosed in double quotes">>

-----------------------------------------------------------------------------
(* fetch_api_data, src/app.py l.47-60.  t is what the transport does.  The  *)
(* value is [ret, net, how]: the value returned, the number of GETs made    *)
(* and the return statement taken.                                         *)

\* the composed URL without the key parameter
FullUrlWithoutKey(endpoint_url) == <<BASE_URL>> \o endpoint_url

FullUrl(endpoint_url) ==
    <<BASE_URL>> \o endpoint_url \o <<"&apiKey=">> \o N2YO_API_KEY.s

FailureDescriptor(error, url) == Dict(<<"error", "url">>, <<error, url>>)

\* l.52-60: the request, once the key is known to be configured
Request(endpoint_url, t) ==
    LET full_url == FullUrl(endpoint_url)
    IN  IF t.kind = "raise"
        THEN [ret |-> FailureDescriptor(<<t.text>>, full_url), net |-> 1,
              how |-> "request_exception"]
        ELSE IF t.status >= 400 /\ t.status < 600
        THEN [ret |-> FailureDescriptor(
                          HTTPErrorMessage(t.status, full_url), full_url),
              net |-> 1, how |-> "request_exception"]
        ELSE IF JsonValid(t.text)
        THEN [ret |-> JsonLoads(t.text), net |-> 1, how |-> "json"]
        \* requests >= 2.27 raises requests.exceptions.JSONDecodeError, a
        \* RequestException as well as a json.JSONDecodeError: the first
        \* except clause takes it.  Older versions raise json.JSONDecodeError.
        ELSE IF jsonErrIsRequestException
        THEN [ret |-> FailureDescriptor(JsonErrorMessage, full_url),
              net |-> 1, how |-> "request_exception"]
        ELSE [ret |-> Dict(<<"error", "content", "url">>,
                           <<<<"JSON Decode Error: ">> \o JsonErrorMessage,
                             <<t.text>>, full_url>>),
              net |-> 1, how |-> "json_decode_error"]

NotConfigured(endpoint_url) ==
    [ret |-> FailureDescriptor(<<"N2YO_API_KEY is not configured.">>,
                               endpoint_url),
     net |-> 0, how |-> "not_configured"]

\* fetch_api_data guarding with "is None" instead of "not": an empty key
\* goes to the network
FetchGuardingNoneOnly(endpoint_url, t) ==
    IF N2YO_API_KEY.t = "none"
    THEN NotConfigured(endpoint_url)
    ELSE Request(endpoint_url, t)

fetch_api_data(endpoint_url, t) ==
    IF ~Truthy(N2YO_API_KEY)
    THEN NotConfigured(endpoint_url)
    ELSE Request(endpoint_url, t)

-----------------------------------------------------------------------------
(* The five query operations, src/app.py l.63-85: the endpoint paths *)

TleEndpoint(sat_id) == <<"tle/", sat_id>>

PositionsEndpoint(sat_id, lat, lng, alt, seconds) ==
    <<"positions/", sat_id, "/", lat, "/", lng, "/", alt, "/", seconds, "/">>

VisualPassesEndpoint(sat_id, lat, lng, alt, days, min_visibility) ==
    <<"visualpasses/", sat_id, "/", lat, "/", lng, "/", alt, "/", days, "/",
      min_visibility, "/">>

RadioPassesEndpoint(sat_id, lat, lng, alt, days, min_elevation) ==
    <<"radiopasses/", sat_id, "/", lat, "/", lng, "/", alt, "/", days, "/",
      min_elevation, "/">>

WhatsUpEndpoint(lat, lng, alt, search_radius, category_id) ==
    <<"above/", lat, "/", lng, "/", alt, "/", search_radius, "/", category_id,
      "/">>

get_tle_data(sat_id, t) == fetch_api_data(TleEndpoint(sat_id), t)

get_positions_data(sat_id, lat, lng, alt, seconds, t) ==
    fetch_api_data(PositionsEndpoint(sat_id, lat, lng, alt, seconds), t)

get_visual_passes_data(sat_id, lat, lng, alt, days, min_visibility, t) ==
    fetch_api_data(
        VisualPassesEndpoint(sat_id, lat, lng, alt, days, min_visibility), t)

get_radio_passes_data(sat_id, lat, lng, alt, days, min_elevation, t) ==
    fetch_api_data(
        RadioPassesEndpoint(sat_id, lat, lng, alt, days, min_elevation), t)

get_whats_up_data(lat, lng, alt, search_radius, category_id, t) ==
    fetch_api_data(
        WhatsUpEndpoint(lat, lng, alt, search_radius, category_id), t)

-----------------------------------------------------------------------------
(* send_email, src/app.py l.88-124.  o is what the SMTP session does.  The  *)
(* value is [ret, smtp, raised]: the value returned, the number of          *)
(* smtplib.SMTP connections attempted, and whether the call raised.         *)

SmtpOutcomes == {"sent", "SMTPAuthenticationError", "SMTPException", "OSError"}

\* send_email with the password left out of its completeness guard
SendEmailIgnoresPassword(subject, body_html, receiver_email, sender_email, smtp_server, smtp_port, smtp_username, smtp_password, o) ==
    IF ~All(<<receiver_email, sender_email, smtp_server, smtp_port,
              smtp_username>>)
    THEN [ret |-> FALSE, smtp |-> 0, raised |-> FALSE]
    ELSE IF body_html.t # "str"
    THEN [ret |-> FALSE, smtp |-> 0, raised |-> TRUE]
    ELSE IF o = "sent"
    THEN [ret |-> TRUE, smtp |-> 1, raised |-> FALSE]
    ELSE [ret |-> FALSE, smtp |-> 1, raised |-> FALSE]

send_email(subject, body_html, receiver_email, sender_email, smtp_server, smtp_port, smtp_username, smtp_password, o) ==
    IF ~All(<<receiver_email, sender_email, smtp_server, smtp_port,
              smtp_username, smtp_password>>)
    THEN [ret |-> FALSE, smtp |-> 0, raised |-> FALSE]
    \* MIMEText(body_html, 'html') is outside the try: None has no encode()
    ELSE IF body_html.t # "str"
    THEN [ret |-> FALSE, smtp |-> 0, raised |-> TRUE]
    ELSE IF o = "sent"
    THEN [ret |-> TRUE, smtp |-> 1, raised |-> FALSE]
    ELSE [ret |-> FALSE, smtp |-> 1, raised |-> FALSE]

-----------------------------------------------------------------------------
(* format_data_as_html, src/app.py l.127-151 *)

\* datetime.utcnow().strftime(...)
UtcNow == "2026-01-01 06:00:00 UTC"
UtcDate == "2026-01-01"

RECURSIVE DumpItems(_, _, _)
DumpItems(keys, vals, i) ==
    IF i > Len(vals) THEN <<>>
    ELSE (IF i > 1 THEN <<",">> ELSE <<>>)
         \o (IF keys # <<>> THEN <<"\"", keys[i], "\": ">> ELSE <<>>)
         \o <<"\"">> \o vals[i] \o <<"\"">>
         \o DumpItems(keys, vals, i + 1)

\* json.dumps(data, indent=2): text is emitted as it is, markup included
JsonDumps(data) ==
    CASE data.t = "null" -> <<"null">>
      [] data.t = "dict" -> <<"{">> \o DumpItems(data.keys, data.vals, 1) \o <<"}">>
      [] OTHER           -> <<"[">> \o DumpItems(<<>>, data.vals, 1) \o <<"]">>

HtmlHead ==
    <<"<html><head><style>",
      "body {font-family: sans-serif; margin: 20px;} ",
      "h1 {color: #333;} h2 {color: #555; border-bottom: 1px solid #eee; padding-bottom: 5px;} ",
      "pre {background-color: #f4f4f4; padding: 10px; border-radius: 5px; overflow-x: auto;} ",
      ".error {color: red; font-weight: bold;}",
      "</style></head><body>",
      "<h1>", "N2YO API Daily Report - ", UtcNow, "</h1>">>

HtmlSection(title, data) ==
    <<"<h2>", title, "</h2>">>
    \o (IF IsDictWith(data, "error")
        THEN <<"<p class='error'>", "Error fetching data: ">>
             \o Item(data, "error") \o <<"</p>">>
             \o (IF IsDictWith(data, "url")
                 THEN <<"<p>", "URL: ">> \o Item(data, "url") \o <<"</p>">>
                 ELSE <<>>)
             \o (IF IsDictWith(data, "content")
                 THEN <<"<p>", "Content: ", "<pre>">> \o Item(data, "content")
                      \o <<"</pre>", "</p>">>
                 ELSE <<>>)
        ELSE IF DataTruthy(data)
        THEN <<"<pre>">> \o JsonDumps(data) \o <<"</pre>">>
        ELSE <<"<p>", "No data received or an unknown error occurred.", "</p>">>)

RECURSIVE HtmlSections(_, _)
HtmlSections(data_dict, i) ==
    IF i > Len(data_dict) THEN <<>>
    ELSE HtmlSection(data_dict[i].title, data_dict[i].data)
         \o HtmlSections(data_dict, i + 1)

\* data_dict is the dict's items in insertion order: <<[title, data], ...>>
format_data_as_html(data_dict) ==
    HtmlHead \o HtmlSections(data_dict, 1) \o <<"</body></html>">>

\* data_dict[title] = data: a new key is appended, a known key keeps its place
DictSet(data_dict, title, data) ==
    IF \E i \in 1..Len(data_dict) : data_dict[i].title = title
    THEN [i \in 1..Len(data_dict) |->
            IF data_dict[i].title = title
            THEN [title |-> title, data |-> data] ELSE data_dict[i]]
    ELSE Append(data_dict, [title |-> title, data |-> data])

-----------------------------------------------------------------------------
(* Environments *)

EnvNames == {"N2YO_API_KEY", "SMTP_SERVER", "SMTP_PORT", "SMTP_USERNAME",
             "SMTP_PASSWORD", "SENDER_EMAIL", "RECEIVER_EMAIL"}

Unset == [set |-> FALSE, s |-> <<>>]

SetTo(s) == [set |-> TRUE, s |-> s]

\* the environment in which exactly the names chosen as set are defined
MkEnv(choice) ==
    [name \in {m \in DOMAIN choice : choice[m].set} |-> choice[name].s]

\* unset, set to the empty string (a secret that is not defined), or set
Settings(s) == {Unset, SetTo(<<>>), SetTo(s)}

PortSettings == {Unset, SetTo(<<"0">>), SetTo(<<"2", "5">>), SetTo(<<"x">>)}

MainEnvs ==
    {MkEnv([N2YO_API_KEY |-> k, SMTP_SERVER |-> h, SMTP_PORT |-> p,
            SMTP_USERNAME |-> u, SMTP_PASSWORD |-> w, SENDER_EMAIL |-> f,
            RECEIVER_EMAIL |-> r]) :
        k \in Settings(<<"k">>), h \in Settings(<<"h">>), p \in PortSettings,
        u \in Settings(<<"u">>), w \in Settings(<<"w">>),
        f \in Settings(<<"f">>), r \in Settings(<<"r">>)}

\* every text of at most n characters over cs
RECURSIVE Texts(_, _)
Texts(cs, n) ==
    IF n = 0 THEN {<<>>}
    ELSE LET shorter == Texts(cs, n - 1)
         IN  shorter \cup {Append(t, c) : t \in shorter, c \in cs}

PortChars == {"0", "7", " ", "-", "_", "x"}

ConfigEnvs ==
    {MkEnv([SMTP_PORT |-> p, SENDER_EMAIL |-> f]) :
        p \in {Unset} \cup {SetTo(t) : t \in Texts(PortChars, MaxLen)},
        f \in Settings(<<"f">>)}

ApiEnvs ==
    {MkEnv([N2YO_API_KEY |-> k]) :
        k \in {Unset, SetTo(<<>>), SetTo(<<"k">>), SetTo(<<"k", "2">>)}}

-----------------------------------------------------------------------------
(* Module load, src/app.py l.26-32: the configuration is resolved once *)

NoOutcome == [kind |-> "", status |-> 0, text |-> ""]

\* the call made: the function, its arguments, what the outside world does
Call(op, params, outcome) == [op |-> op, params |-> params, outcome |-> outcome]

NoCall == Call("", <<>>, NoOutcome)

Load(E) ==
    /\ env \in E
    /\ jsonErrIsRequestException \in BOOLEAN
    /\ N2YO_API_KEY = get_config_value(env, "N2YO_API_KEY", None, FALSE).value
    /\ SMTP_SERVER = get_config_value(env, "SMTP_SERVER", None, FALSE).value
    /\ SMTP_PORT = get_config_value(env, "SMTP_PORT",
                                    PyInt(DEFAULT_SMTP_PORT), TRUE).value
    /\ SMTP_USERNAME = get_config_value(env, "SMTP_USERNAME", None, FALSE).value
    /\ SMTP_PASSWORD = get_config_value(env, "SMTP_PASSWORD", None, FALSE).value
    /\ SENDER_EMAIL = get_config_value(env, "SENDER_EMAIL", SMTP_USERNAME,
                                       FALSE).value
    /\ RECEIVER_EMAIL = get_config_value(env, "RECEIVER_EMAIL", None,
                                         FALSE).value
    /\ all_data = <<>>
    /\ email_body_html = <<>>
    /\ calls = <<>>
    /\ fetched = <<>>
    /\ netCalls = 0
    /\ smtpCalls = 0
    /\ exitStatus = -1
    /\ result = None
    /\ args = NoCall

-----------------------------------------------------------------------------
(* The entry point, src/app.py l.154-199 *)

Init == Load(MainEnvs) /\ pc = "check_api_key"

Exit(status) ==
    /\ pc' = "exited"
    /\ exitStatus' = status

\* l.158-160
CheckApiKey ==
    /\ pc = "check_api_key"
    /\ IF ~Truthy(N2YO_API_KEY)
       THEN Exit(1)
       ELSE pc' = "check_receiver" /\ UNCHANGED exitStatus
    /\ UNCHANGED <<config, all_data, email_body_html, calls, fetched,
                   netCalls, smtpCalls, result, args>>

\* l.162-164
CheckReceiver ==
    /\ pc = "check_receiver"
    /\ IF ~Truthy(RECEIVER_EMAIL)
       THEN Exit(1)
       ELSE pc' = "check_smtp" /\ UNCHANGED exitStatus
    /\ UNCHANGED <<config, all_data, email_body_html, calls, fetched,
                   netCalls, smtpCalls, result, args>>

\* the third check with the password left out
CheckSmtpIgnoresPassword ==
    /\ pc = "check_smtp"
    /\ IF ~All(<<SMTP_SERVER, SMTP_PORT, SMTP_USERNAME>>)
       THEN Exit(1)
       ELSE pc' = "tle" /\ UNCHANGED exitStatus
    /\ UNCHANGED <<config, all_data, email_body_html, calls, fetched,
                   netCalls, smtpCalls, result, args>>

\* l.166-168
CheckSmtp ==
    /\ pc = "check_smtp"
    /\ IF ~All(<<SMTP_SERVER, SMTP_PORT, SMTP_USERNAME, SMTP_PASSWORD>>)
       THEN Exit(1)
       ELSE pc' = "tle" /\ UNCHANGED exitStatus
    /\ UNCHANGED <<config, all_data, email_body_html, calls, fetched,
                   netCalls, smtpCalls, result, args>>

\* a collection that gives up on the first failed query and goes to the mail
CollectStopsOnFailure(at, next, name, title, r) ==
    /\ pc = at
    /\ pc' = IF IsDictWith(r.ret, "error") THEN "report" ELSE next
    /\ calls' = Append(calls, name)
    /\ fetched' = Append(fetched, r.how)
    /\ netCalls' = netCalls + r.net
    /\ all_data' = DictSet(all_data, title, r.ret)
    /\ UNCHANGED <<config, email_body_html, smtpCalls, exitStatus, result, args>>

\* all_data[title] = <query>(...): one statement of l.174-186
Collect(at, next, name, title, r) ==
    /\ pc = at
    /\ pc' = next
    /\ calls' = Append(calls, name)
    /\ fetched' = Append(fetched, r.how)
    /\ netCalls' = netCalls + r.net
    /\ all_data' = DictSet(all_data, title, r.ret)
    /\ UNCHANGED <<config, email_body_html, smtpCalls, exitStatus, result, args>>

\* l.174
CollectTle ==
    /\ pc = "tle"
    /\ \E t \in TransportOutcomes :
        Collect("tle", "positions", "get_tle_data", "TLE Data (ISS)",
                get_tle_data(ISS_NORAD_ID, t))

\* l.175-177
CollectPositions ==
    /\ pc = "positions"
    /\ \E t \in TransportOutcomes :
        Collect("positions", "visual", "get_positions_data",
                "Positions Data (ISS)",
                get_positions_data(ISS_NORAD_ID, OBSERVER_LAT, OBSERVER_LNG,
                                   OBSERVER_ALT, "3", t))

\* l.178-180
CollectVisualPasses ==
    /\ pc = "visual"
    /\ \E t \in TransportOutcomes :
        Collect("visual", "radio", "get_visual_passes_data",
                "Visual Passes (ISS)",
                get_visual_passes_data(ISS_NORAD_ID, OBSERVER_LAT,
                                       OBSERVER_LNG, OBSERVER_ALT, PASS_DAYS,
                                       MIN_VISIBILITY_SECONDS, t))

\* l.181-183
CollectRadioPasses ==
    /\ pc = "radio"
    /\ \E t \in TransportOutcomes :
        Collect("radio", "whatsup", "get_radio_passes_data",
                "Radio Passes (ISS)",
                get_radio_passes_data(ISS_NORAD_ID, OBSERVER_LAT, OBSERVER_LNG,
                                      OBSERVER_ALT, PASS_DAYS,
                                      MIN_ELEVATION_DEGREES, t))

\* l.184-186
CollectWhatsUp ==
    /\ pc = "whatsup"
    /\ \E t \in TransportOutcomes :
        Collect("whatsup", "report", "get_whats_up_data", "What's Up",
                get_whats_up_data(OBSERVER_LAT, OBSERVER_LNG, OBSERVER_ALT,
                                  SEARCH_RADIUS_DEGREES, CATEGORY_ID, t))

\* an entry point that exits with status 1 when send_email returns False
SendReportExitsOnFailure ==
    /\ pc = "report"
    /\ \E o \in SmtpOutcomes :
        LET email_subject == PyStr(<<"N2YO Daily Satellite Report - ", UtcDate>>)
            html == format_data_as_html(all_data)
            sent == send_email(email_subject, PyStr(html), RECEIVER_EMAIL,
                               SENDER_EMAIL, SMTP_SERVER, SMTP_PORT,
                               SMTP_USERNAME, SMTP_PASSWORD, o)
        IN  /\ email_body_html' = html
            /\ calls' = calls \o <<"format_data_as_html", "send_email">>
            /\ smtpCalls' = smtpCalls + sent.smtp
            /\ result' = sent
            /\ Exit(IF sent.ret THEN 0 ELSE 1)
    /\ UNCHANGED <<config, all_data, fetched, netCalls, args>>

\* l.188-199: render, send, and run off the end of the script
SendReport ==
    /\ pc = "report"
    /\ \E o \in SmtpOutcomes :
        LET email_subject == PyStr(<<"N2YO Daily Satellite Report - ", UtcDate>>)
            html == format_data_as_html(all_data)
            sent == send_email(email_subject, PyStr(html), RECEIVER_EMAIL,
                               SENDER_EMAIL, SMTP_SERVER, SMTP_PORT,
                               SMTP_USERNAME, SMTP_PASSWORD, o)
        IN  /\ email_body_html' = html
            /\ calls' = calls \o <<"format_data_as_html", "send_email">>
            /\ smtpCalls' = smtpCalls + sent.smtp
            /\ result' = sent
            /\ Exit(IF sent.raised THEN 1 ELSE 0)
    /\ UNCHANGED <<config, all_data, fetched, netCalls, args>>

Next ==
    \/ CheckApiKey
    \/ CheckReceiver
    \/ CheckSmtp
    \/ CollectTle
    \/ CollectPositions
    \/ CollectVisualPasses
    \/ CollectRadioPasses
    \/ CollectWhatsUp
    \/ SendReport

Spec == Init /\ [][Next]_vars

-----------------------------------------------------------------------------
(* The query operations called from an importing module, whatever the      *)
(* configuration is: src/app.py l.63-85                                     *)

SatIds == {ISS_NORAD_ID, "20580"}
Lats == {OBSERVER_LAT, "-33.9"}
Windows == {PASS_DAYS, "10"}

InitApi == Load(ApiEnvs) /\ pc = "imported"

Return(name, params, t, r) ==
    /\ pc' = "returned"
    /\ args' = Call(name, params, t)
    /\ result' = r.ret
    /\ netCalls' = netCalls + r.net
    /\ calls' = Append(calls, name)
    /\ fetched' = Append(fetched, r.how)
    /\ UNCHANGED <<config, all_data, email_body_html, smtpCalls, exitStatus>>

CallGetTle ==
    /\ pc = "imported"
    /\ \E sat_id \in SatIds, t \in TransportOutcomes :
        Return("get_tle_data", <<sat_id>>, t, get_tle_data(sat_id, t))

CallGetPositions ==
    /\ pc = "imported"
    /\ \E sat_id \in SatIds, lat \in Lats, seconds \in {"3", "5"},
       t \in TransportOutcomes :
        Return("get_positions_data",
               <<sat_id, lat, OBSERVER_LNG, OBSERVER_ALT, seconds>>, t,
               get_positions_data(sat_id, lat, OBSERVER_LNG, OBSERVER_ALT,
                                  seconds, t))

CallGetVisualPasses ==
    /\ pc = "imported"
    /\ \E sat_id \in SatIds, lat \in Lats, days \in Windows,
       t \in TransportOutcomes :
        Return("get_visual_passes_data",
               <<sat_id, lat, OBSERVER_LNG, OBSERVER_ALT, days,
                 MIN_VISIBILITY_SECONDS>>, t,
               get_visual_passes_data(sat_id, lat, OBSERVER_LNG, OBSERVER_ALT,
                                      days, MIN_VISIBILITY_SECONDS, t))

CallGetRadioPasses ==
    /\ pc = "imported"
    /\ \E sat_id \in SatIds, lat \in Lats, days \in Windows,
       t \in TransportOutcomes :
        Return("get_radio_passes_data",
               <<sat_id, lat, OBSERVER_LNG, OBSERVER_ALT, days,
                 MIN_ELEVATION_DEGREES>>, t,
               get_radio_passes_data(sat_id, lat, OBSERVER_LNG, OBSERVER_ALT,
                                     days, MIN_ELEVATION_DEGREES, t))

CallGetWhatsUp ==
    /\ pc = "imported"
    /\ \E lat \in Lats, category_id \in {CATEGORY_ID, "18"},
       t \in TransportOutcomes :
        Return("get_whats_up_data",
               <<lat, OBSERVER_LNG, OBSERVER_ALT, SEARCH_RADIUS_DEGREES,
                 category_id>>, t,
               get_whats_up_data(lat, OBSERVER_LNG, OBSERVER_ALT,
                                 SEARCH_RADIUS_DEGREES, category_id, t))

NextApi ==
    \/ CallGetTle
    \/ CallGetPositions
    \/ CallGetVisualPasses
    \/ CallGetRadioPasses
    \/ CallGetWhatsUp

SpecApi == InitApi /\ [][NextApi]_vars

-----------------------------------------------------------------------------
(* send_email called with any arguments: src/app.py l.88-124 *)

MailEnvs == {MkEnv([SMTP_PORT |-> p]) : p \in {Unset, SetTo(<<"2", "5">>)}}

TextArgs(s) == {None, PyStr(<<>>), PyStr(s)}

PortArgs == {None, PyInt(0), PyInt(DEFAULT_SMTP_PORT)}

InitMail == Load(MailEnvs) /\ pc = "imported"

CallSendEmail ==
    /\ pc = "imported"
    /\ \E subject \in TextArgs(<<"subject">>), body_html \in TextArgs(<<"<p>">>),
       receiver_email \in TextArgs(<<"r">>), sender_email \in TextArgs(<<"f">>),
       smtp_server \in TextArgs(<<"h">>), smtp_port \in PortArgs,
       smtp_username \in TextArgs(<<"u">>), smtp_password \in TextArgs(<<"w">>),
       o \in SmtpOutcomes :
        LET sent == send_email(subject, body_html, receiver_email,
                               sender_email, smtp_server, smtp_port,
                               smtp_username, smtp_password, o)
        IN  /\ pc' = "returned"
            /\ args' = Call("send_email",
                            <<subject, body_html, receiver_email, sender_email,
                              smtp_server, smtp_port, smtp_username,
                              smtp_password>>,
                            [kind |-> o, status |-> 0, text |-> ""])
            /\ result' = sent
            /\ smtpCalls' = smtpCalls + sent.smtp
            /\ calls' = Append(calls, "send_email")
            /\ UNCHANGED <<config, all_data, email_body_html, fetched,
                           netCalls, exitStatus>>

NextMail == CallSendEmail

SpecMail == InitMail /\ [][NextMail]_vars

-----------------------------------------------------------------------------
(* get_config_value called with any arguments: src/app.py l.10-23 *)

KeyNames == {"SMTP_PORT", "smtp_port", "Smtp_Port", "sender_email",
             "RECEIVER_EMAIL"}

Defaults == {None, PyInt(DEFAULT_SMTP_PORT), PyStr(<<"d">>)}

InitConfig == Load(ConfigEnvs) /\ pc = "imported"

CallGetConfigValue ==
    /\ pc = "imported"
    /\ \E key_name \in KeyNames, default \in Defaults, is_int \in BOOLEAN :
        /\ pc' = "returned"
        /\ args' = Call("get_config_value",
                        <<PyStr(<<key_name>>), default,
                          IF is_int THEN PyInt(1) ELSE PyInt(0)>>, NoOutcome)
        /\ result' = get_config_value(env, key_name, default, is_int)
        /\ calls' = Append(calls, "get_config_value")
        /\ UNCHANGED <<config, all_data, email_body_html, fetched, netCalls,
                       smtpCalls, exitStatus>>

NextConfig == CallGetConfigValue

SpecConfig == InitConfig /\ [][NextConfig]_vars

-----------------------------------------------------------------------------
(* Properties *)

\* a value that is None, the empty string or zero
Missing(v) ==
    \/ v.t = "none"
    \/ v.t = "str" /\ Len(v.s) = 0
    \/ v.t = "int" /\ v.n = 0

MandatoryConfig ==
    {N2YO_API_KEY, RECEIVER_EMAIL, SMTP_SERVER, SMTP_PORT, SMTP_USERNAME,
     SMTP_PASSWORD}

ConfigMissing == \E v \in MandatoryConfig : Missing(v)

ConfigPresent == \A v \in MandatoryConfig : ~Missing(v)

Count(seq, x) == Cardinality({i \in 1..Len(seq) : seq[i] = x})

IsPrefix(a, b) == Len(a) <= Len(b) /\ a = SubSeq(b, 1, Len(a))

\* C1: when the API key, the recipient or one of the four SMTP settings is
\* missing from the resolved configuration, the run never leaves the three
\* checks: it makes no GET, calls no query, formatter or send_email, opens no
\* SMTP connection, the only exit it takes is exit status 1, and until it
\* has exited a step towards that exit is enabled.
C1_MissingConfigExitsBeforeAnyCall ==
    ConfigMissing =>
        /\ pc \in {"check_api_key", "check_receiver", "check_smtp", "exited"}
        /\ netCalls = 0
        /\ smtpCalls = 0
        /\ calls = <<>>
        /\ exitStatus \in {-1, 1}
        /\ (pc = "exited" => exitStatus = 1)
        /\ (pc # "exited" => ENABLED Next)

\* the run ended at the third check: key and recipient set, an SMTP setting
\* (here the password) missing
C1_Witness ==
    /\ pc = "exited"
    /\ exitStatus = 1
    /\ ~Missing(N2YO_API_KEY)
    /\ ~Missing(RECEIVER_EMAIL)
    /\ ~Missing(SMTP_SERVER)
    /\ ~Missing(SMTP_PORT)
    /\ ~Missing(SMTP_USERNAME)
    /\ Missing(SMTP_PASSWORD)

\* C2: when all mandatory configuration is present the run never exits with
\* status 1, and when it has ended send_email has returned (TRUE, or FALSE
\* from its guard or from an SMTP failure) and the exit status is 0.
C2_DeliveryOutcomeNeverChangesExitStatus ==
    ConfigPresent =>
        /\ exitStatus \in {-1, 0}
        /\ (pc = "exited" =>
                /\ exitStatus = 0
                /\ calls[Len(calls)] = "send_email"
                /\ result.ret \in BOOLEAN)

\* a run that ended with status 0 although the SMTP session failed
C2_Witness ==
    /\ pc = "exited"
    /\ ConfigPresent
    /\ exitStatus = 0
    /\ smtpCalls = 1
    /\ result.ret = FALSE

ExpectedCalls ==
    <<"get_tle_data", "get_positions_data", "get_visual_passes_data",
      "get_radio_passes_data", "get_whats_up_data", "format_data_as_html",
      "send_email">>

ExpectedTitles ==
    <<"TLE Data (ISS)", "Positions Data (ISS)", "Visual Passes (ISS)",
      "Radio Passes (ISS)", "What's Up">>

\* C7: in a run that passes the checks the calls made so far are always a
\* prefix of TLE, positions, visual passes, radio passes, what's-up, format,
\* send; the report's sections are the corresponding prefix of the five
\* titles; and the run ends only after all seven calls, with five sections.
C7_AllQueriesThenOneSend ==
    ConfigPresent =>
        /\ IsPrefix(calls, ExpectedCalls)
        /\ Len(all_data) = Len(fetched)
        /\ Len(all_data) <= 5
        /\ Len(all_data) = (IF Len(calls) <= 5 THEN Len(calls) ELSE 5)
        /\ \A i \in 1..Len(all_data) : all_data[i].title = ExpectedTitles[i]
        /\ (pc = "exited" => calls = ExpectedCalls /\ Len(all_data) = 5)

\* a finished run whose first query failed and whose last query delivered
C7_Witness ==
    /\ pc = "exited"
    /\ ConfigPresent
    /\ Len(all_data) = 5
    /\ fetched[1] = "request_exception"
    /\ fetched[3] = "json_decode_error"
    /\ fetched[5] = "json"
    /\ Count(calls, "send_email") = 1

\* C8: when the run has ended and each of the five queries returned the
\* parsed JSON payload of a 2xx response, the rendered HTML holds five <h2>
\* tags and no element of class error.
C8_FiveSuccessesRenderNoError ==
    (/\ pc = "exited"
     /\ exitStatus = 0
     /\ Len(fetched) = 5
     /\ \A i \in 1..5 : fetched[i] = "json") =>
        /\ Count(email_body_html, "<h2>") = 5
        /\ Count(email_body_html, "<p class='error'>") = 0

\* C10: a run that has passed the three checks and ended has attempted
\* exactly one SMTP connection: send_email did not take its "configuration
\* incomplete" branch.
C10_ChecksImplySendEmailGuardPasses ==
    (pc = "exited" /\ exitStatus = 0) => smtpCalls = 1

-----------------------------------------------------------------------------
(* Properties of the direct calls *)

\* prefix/p1/p2/.../pn/ : the endpoint path of a query with parameters
RECURSIVE Slashed(_)
Slashed(params) ==
    IF params = <<>> THEN <<>>
    ELSE <<Head(params), "/">> \o Slashed(Tail(params))

ExpectedPath(call) ==
    CASE call.op = "get_tle_data" -> <<"tle/", call.params[1]>>
      [] call.op = "get_positions_data" -> <<"positions/">> \o Slashed(call.params)
      [] call.op = "get_visual_passes_data" ->
            <<"visualpasses/">> \o Slashed(call.params)
      [] call.op = "get_radio_passes_data" ->
            <<"radiopasses/">> \o Slashed(call.params)
      [] OTHER -> <<"above/">> \o Slashed(call.params)

ExpectedFullUrl(call) ==
    <<"https://api.n2yo.com/rest/v1/satellite/">> \o ExpectedPath(call)
    \o <<"&apiKey=">> \o N2YO_API_KEY.s

QueryOps ==
    {"get_tle_data", "get_positions_data", "get_visual_passes_data",
     "get_radio_passes_data", "get_whats_up_data"}

Returned == pc = "returned" /\ args.op \in QueryOps

TransportFailed ==
    \/ args.outcome.kind = "raise"
    \/ args.outcome.kind = "response"
       /\ ~(args.outcome.status >= 200 /\ args.outcome.status < 300)

ParseFailed ==
    /\ args.outcome.kind = "response"
    /\ args.outcome.status >= 200 /\ args.outcome.status < 300
    /\ args.outcome.text = "{invalid"

\* C3: a query operation called with no API key configured (unset or empty)
\* returns exactly {"error": "N2YO_API_KEY is not configured.", "url": <the
\* endpoint path>} and makes no GET.
C3_NoKeyNoNetworkCall ==
    (Returned /\ Missing(N2YO_API_KEY)) =>
        /\ result.t = "dict"
        /\ result.keys = <<"error", "url">>
        /\ Item(result, "error") = <<"N2YO_API_KEY is not configured.">>
        /\ Item(result, "url") = ExpectedPath(args)
        /\ netCalls = 0

\* the what's-up query returned with the key set to the empty string
C3_Witness ==
    /\ Returned
    /\ args.op = "get_whats_up_data"
    /\ N2YO_API_KEY = PyStr(<<>>)
    /\ IsDictWith(result, "error")

C5_ParseFailureCarriesContent ==
    (Returned /\ ~Missing(N2YO_API_KEY) /\ ParseFailed) =>
        /\ IsDictWith(result, "error")
        /\ IsDictWith(result, "url")
        /\ Item(result, "url") = ExpectedFullUrl(args)
        /\ IsDictWith(result, "content")
        /\ Item(result, "content") = <<args.outcome.text>>

SentEmail == pc = "returned" /\ args.op = "send_email"

\* C6 as stated: send_email called with any of its eight arguments falsy
\* returns FALSE, without raising and without an SMTP connection.
C6_AnyOfEightFalsySkips ==
    (SentEmail /\ \E i \in 1..8 : Missing(args.params[i])) =>
        /\ result.ret = FALSE
        /\ ~result.raised
        /\ smtpCalls = 0

\* C6 amended: send_email called with any of the six arguments of its guard
\* (recipient, sender, host, port, username, password) falsy returns FALSE,
\* without raising and without an SMTP connection.
C6_AnyOfSixFalsySkips ==
    (SentEmail /\ \E i \in 3..8 : Missing(args.params[i])) =>
        /\ result.ret = FALSE
        /\ ~result.raised
        /\ smtpCalls = 0

\* send_email returned with only the password empty
C6_Witness ==
    /\ SentEmail
    /\ \A i \in 1..7 : ~Missing(args.params[i])
    /\ args.params[8] = PyStr(<<>>)
    /\ args.outcome.kind = "sent"
    /\ result.ret = FALSE

UpperCased(name) ==
    IF name \in {"SMTP_PORT", "smtp_port", "Smtp_Port"} THEN "SMTP_PORT"
    ELSE IF name \in {"SENDER_EMAIL", "sender_email"} THEN "SENDER_EMAIL"
    ELSE "RECEIVER_EMAIL"

GotConfigValue == pc = "returned" /\ args.op = "get_config_value"

\* C9: get_config_value(name, default, is_int) never raises; it returns the
\* default as it is when the upper-cased name is not in the environment, the
\* raw text when it is and is_int is false, the integer when is_int is true
\* and the text is an integer literal, and the default when it is not.
C9_GetConfigValue ==
    GotConfigValue =>
        LET name == UpperCased(args.params[1].s[1])
            default == args.params[2]
            is_int == args.params[3].n = 1
        IN  /\ ~result.raised
            /\ IF name \notin DOMAIN env
               THEN result.value = default
               ELSE IF ~is_int
               THEN result.value = PyStr(env[name])
               ELSE IF IsIntLiteral(env[name])
               THEN /\ result.value = PyInt(IntValue(env[name]))
                    /\ (env[name] = <<"7">> => result.value.n = 7)
                    /\ (env[name] = <<"-", "7">> => result.value.n = 0 - 7)
                    /\ (env[name] = <<" ", "7", "0">> => result.value.n = 70)
                    /\ (env[name] = <<"7", "_", "0">> => result.value.n = 70)
               ELSE result.value = default

\* SMTP_PORT is set to text that is no integer and the default came back
C9_Witness ==
    /\ GotConfigValue
    /\ args.params[1].s[1] = "smtp_port"
    /\ args.params[3].n = 1
    /\ "SMTP_PORT" \in DOMAIN env
    /\ env["SMTP_PORT"] = <<"7", "x">>
    /\ args.params[2] = PyInt(587)
    /\ result.value = PyInt(587)

=============================================================================
